---- MODULE Spec2Model ----
(***************************************************************************)
(* Model of the engagespot crate: the NotificationItem / Notification /    *)
(* NotificationBuilder value types with their serde serialization, and the *)
(* Engagespot client (EngagespotBuilder, Engagespot::send,                 *)
(* Engagespot::create_or_update_user_attrs, handle_response, get_url).     *)
(*                                                                         *)
(* Option<T> is a sequence of length 0 (None) or 1 (Some(v)).              *)
(* Text is a TLA+ string; header values are sequences of bytes, since      *)
(* HeaderValue::from_str inspects them byte by byte.                       *)
(***************************************************************************)
EXTENDS Integers, Sequences, FiniteSets, TLC

VARIABLES
    vecs,          \* the caller's Vec<String> values, by id (what &'a Vec<String> points to)
    borrowed,      \* ids of the caller's vectors borrowed by the live NotificationBuilder
    bpc,           \* "none" | "building" | "built" | "serialized"
    builder,       \* the NotificationBuilder value (while bpc = "building")
    notification,  \* the built Notification (Option)
    wire,          \* the JSON value serde produced for the Notification (Option)
    log,           \* history: the builder calls made so far, in order
    cpc,           \* "start" | "builder" | "client" | "panicked"
    ebuilder,      \* the EngagespotBuilder value (Option)
    engagespot,    \* the Engagespot client value (Option)
    elog,          \* history: the constructor call and the base_url overrides
    calls          \* per invocation of send / create_or_update_user_attrs

nvars == <<vecs, borrowed, bpc, builder, notification, wire, log>>
cvars == <<cpc, ebuilder, engagespot, elog, calls>>
vars  == <<vecs, borrowed, bpc, builder, notification, wire, log,
           cpc, ebuilder, engagespot, elog, calls>>

(***************************************************************************)
(* Bounds and input domains.                                               *)
(***************************************************************************)
MaxCalls == 2          \* chained setter calls on one NotificationBuilder
MaxVecLen == 2         \* length of a caller's recipients vector
MaxOverrides == 2      \* base_url(...) calls on one EngagespotBuilder
NumInvocations == 2    \* invocations of send / create_or_update_user_attrs

Texts == {"a", "b"}
VecIds == {1, 2}

None == <<>>
Some(v) == <<v>>
is_none(o) == o = <<>>
unwrap(o) == o[1]

(***************************************************************************)
(* notification_item.rs                                                    *)
(***************************************************************************)
NotificationItem_new(title) ==
    [title |-> title, message |-> None, url |-> None, icon |-> None]

NotificationItem_with_args(title, message, url, icon) ==
    [title |-> title, message |-> Some(message), url |-> Some(url), icon |-> Some(icon)]

NotificationItem_title(self, title) == [self EXCEPT !.title = title]

NotificationItem_message(self, message) == [self EXCEPT !.message = Some(message)]

NotificationItem_url(self, url) == [self EXCEPT !.url = Some(url)]

NotificationItem_icon(self, icon) == [self EXCEPT !.icon = Some(icon)]

(***************************************************************************)
(* notification.rs: NotificationBuilder.  The recipients field is a        *)
(* reference: the id of one of the caller's vectors.                       *)
(***************************************************************************)
NotificationBuilder_new(title, recipients) ==
    [notification |-> NotificationItem_new(title),
     recipients |-> recipients,
     data |-> None,
     category |-> None]

\* Mutant: the item replaces message, url and icon but the title is kept.
NotificationBuilder_notification_item_keeps_title(self, item) ==
    [self EXCEPT !.notification = [item EXCEPT !.title = self.notification.title]]

NotificationBuilder_notification_item(self, item) == [self EXCEPT !.notification = item]

\* Mutant: the title is set by starting a fresh item.
NotificationBuilder_title_fresh_item(self, title) ==
    [self EXCEPT !.notification = NotificationItem_new(title)]

NotificationBuilder_title(self, title) ==
    [self EXCEPT !.notification = NotificationItem_title(self.notification, title)]

NotificationBuilder_message(self, message) ==
    [self EXCEPT !.notification = NotificationItem_message(self.notification, message)]

NotificationBuilder_url(self, url) ==
    [self EXCEPT !.notification = NotificationItem_url(self.notification, url)]

NotificationBuilder_icon(self, icon) ==
    [self EXCEPT !.notification = NotificationItem_icon(self.notification, icon)]

NotificationBuilder_recipients(self, recipients) == [self EXCEPT !.recipients = recipients]

NotificationBuilder_data(self, data) == [self EXCEPT !.data = Some(data)]

NotificationBuilder_category(self, category) == [self EXCEPT !.category = Some(category)]

\* Mutant: the recipients are not cloned into the Notification.
NotificationBuilder_build_no_clone(self, heap) ==
    [notification |-> self.notification,
     recipients |-> <<>>,
     data |-> self.data,
     category |-> self.category]

\* build(self): self.recipients.clone() reads the vector the reference points to.
NotificationBuilder_build(self, heap) ==
    [notification |-> self.notification,
     recipients |-> heap[self.recipients],
     data |-> self.data,
     category |-> self.category]

(***************************************************************************)
(* serde: #[derive(Serialize)] on NotificationItem and Notification.       *)
(* A JSON object is the sequence of its members in emission order.         *)
(***************************************************************************)
JNull == [t |-> "null"]
JString(s) == [t |-> "string", s |-> s]
JArray(items) == [t |-> "array", items |-> items]
JObject(members) == [t |-> "object", members |-> members]
Member(k, v) == [key |-> k, val |-> v]

\* Option<String> without skip_serializing_if: None is emitted as null.
SerializeOptionString(o) == IF is_none(o) THEN JNull ELSE JString(unwrap(o))

\* The payload type T: Serialize of Notification<T> and of attrs: &T.  A
\* payload value carries its type: String, Option<String> (the default T of
\* Notification) or the struct Data { foo } of examples/simple.rs.  serde
\* emits a String as a string, an Option<String> as null or a string, and a
\* struct as an object of its fields.
SerializePayload(d) ==
    CASE d.ty = "String" -> JString(d.v)
      [] d.ty = "Option<String>" -> SerializeOptionString(d.v)
      [] d.ty = "Data" -> JObject(<<Member("foo", JString(d.foo))>>)

\* A field with #[serde(skip_serializing_if = "Option::is_none")]: left out
\* when the field is None, otherwise emitted as its content serializes
\* (data: Option<T> as T does, category: Option<String> as a string).
SkipIfNone(k, o) ==
    IF is_none(o) THEN <<>>
    ELSE <<Member(k, IF k = "data" THEN SerializePayload(unwrap(o))
                     ELSE JString(unwrap(o)))>>

NotificationItem_serialize(self) ==
    JObject(<<Member("title", JString(self.title)),
              Member("message", SerializeOptionString(self.message)),
              Member("url", SerializeOptionString(self.url)),
              Member("icon", SerializeOptionString(self.icon))>>)

Notification_serialize(self) ==
    JObject(<<Member("notification", NotificationItem_serialize(self.notification)),
              Member("recipients",
                     JArray([i \in 1..Len(self.recipients) |-> JString(self.recipients[i])]))>>
            \o SkipIfNone("data", self.data)
            \o SkipIfNone("category", self.category))

(***************************************************************************)
(* The caller of the builder.                                              *)
(***************************************************************************)
Items ==
    {NotificationItem_new("b"),
     NotificationItem_with_args("a", "b", "a", "b")}

TextSetters == {"title", "message", "url", "icon", "category"}

\* Arguments of data(..), each of one payload type T.
Payloads ==
    {[ty |-> "String", v |-> "a"], [ty |-> "String", v |-> "b"],
     [ty |-> "Option<String>", v |-> None], [ty |-> "Option<String>", v |-> Some("a")],
     [ty |-> "Data", foo |-> "bar"], [ty |-> "Data", foo |-> "baz"]}

\* T is fixed for one NotificationBuilder<T>: every data(..) call of a chain
\* passes the same type.
SameT(d) == \A i \in 1..Len(log) : log[i].op = "data" => log[i].arg.ty = d.ty

\* The chain method named by a call record.
ApplySetter(self, call) ==
    CASE call.op = "title" -> NotificationBuilder_title(self, call.arg)
      [] call.op = "message" -> NotificationBuilder_message(self, call.arg)
      [] call.op = "url" -> NotificationBuilder_url(self, call.arg)
      [] call.op = "icon" -> NotificationBuilder_icon(self, call.arg)
      [] call.op = "data" -> NotificationBuilder_data(self, call.arg)
      [] call.op = "category" -> NotificationBuilder_category(self, call.arg)
      [] call.op = "recipients" -> NotificationBuilder_recipients(self, call.arg)
      [] call.op = "notification_item" -> NotificationBuilder_notification_item(self, call.arg)

\* The caller changes one of its own vectors; the borrow checker allows it
\* only while no NotificationBuilder<'a> holds a shared borrow of it.
PushValues == {"r3"}

CallerPush(v, r) ==
    /\ v \notin borrowed
    /\ Len(vecs[v]) < MaxVecLen
    /\ vecs' = [vecs EXCEPT ![v] = Append(@, r)]
    /\ UNCHANGED <<borrowed, bpc, builder, notification, wire, log>>
    /\ UNCHANGED cvars

CallerClear(v) ==
    /\ v \notin borrowed
    /\ vecs[v] /= <<>>
    /\ vecs' = [vecs EXCEPT ![v] = <<>>]
    /\ UNCHANGED <<borrowed, bpc, builder, notification, wire, log>>
    /\ UNCHANGED cvars

New(title, v) ==
    /\ bpc = "none"
    /\ builder' = NotificationBuilder_new(title, v)
    /\ borrowed' = {v}
    /\ bpc' = "building"
    /\ log' = <<[op |-> "new", arg |-> title, snap |-> vecs[v]]>>
    /\ UNCHANGED <<vecs, notification, wire>>
    /\ UNCHANGED cvars

SetText(op, arg) ==
    /\ bpc = "building"
    /\ Len(log) <= MaxCalls
    /\ builder' = ApplySetter(builder, [op |-> op, arg |-> arg])
    /\ log' = Append(log, [op |-> op, arg |-> arg])
    /\ UNCHANGED <<vecs, borrowed, bpc, notification, wire>>
    /\ UNCHANGED cvars

SetData(d) ==
    /\ bpc = "building"
    /\ Len(log) <= MaxCalls
    /\ SameT(d)
    /\ builder' = ApplySetter(builder, [op |-> "data", arg |-> d])
    /\ log' = Append(log, [op |-> "data", arg |-> d])
    /\ UNCHANGED <<vecs, borrowed, bpc, notification, wire>>
    /\ UNCHANGED cvars

SetRecipients(v) ==
    /\ bpc = "building"
    /\ Len(log) <= MaxCalls
    /\ builder' = ApplySetter(builder, [op |-> "recipients", arg |-> v])
    /\ borrowed' = borrowed \cup {v}
    /\ log' = Append(log, [op |-> "recipients", arg |-> v, snap |-> vecs[v]])
    /\ UNCHANGED <<vecs, bpc, notification, wire>>
    /\ UNCHANGED cvars

SetNotificationItem(item) ==
    /\ bpc = "building"
    /\ Len(log) <= MaxCalls
    /\ builder' = ApplySetter(builder, [op |-> "notification_item", arg |-> item])
    /\ log' = Append(log, [op |-> "notification_item", arg |-> item])
    /\ UNCHANGED <<vecs, borrowed, bpc, notification, wire>>
    /\ UNCHANGED cvars

Build ==
    /\ bpc = "building"
    /\ notification' = Some(NotificationBuilder_build(builder, vecs))
    /\ borrowed' = {}
    /\ bpc' = "built"
    /\ UNCHANGED <<vecs, builder, wire, log>>
    /\ UNCHANGED cvars

\* serde_json on &Notification, as RequestBuilder::json does in send.
Serialize ==
    /\ bpc = "built"
    /\ wire' = Some(Notification_serialize(unwrap(notification)))
    /\ bpc' = "serialized"
    /\ UNCHANGED <<vecs, borrowed, builder, notification, log>>
    /\ UNCHANGED cvars

CallerVecs == [v \in VecIds |-> IF v = 1 THEN <<"r1", "r2">> ELSE <<"r2">>]

\* Nothing constructed yet: no builder, no Notification, no client.
Init ==
    /\ vecs = CallerVecs
    /\ borrowed = {}
    /\ bpc = "none"
    /\ builder = None
    /\ notification = None
    /\ wire = None
    /\ log = <<>>
    /\ cpc = "start"
    /\ ebuilder = None
    /\ engagespot = None
    /\ elog = <<>>
    /\ calls = <<>>

\* A NotificationBuilder chain: new, setters, build, serialization.
NotifNext ==
    \/ \E t \in Texts, v \in VecIds : New(t, v)
    \/ \E op \in TextSetters, a \in Texts : SetText(op, a)
    \/ \E d \in Payloads : SetData(d)
    \/ \E v \in VecIds : SetRecipients(v)
    \/ \E item \in Items : SetNotificationItem(item)
    \/ Build
    \/ Serialize

SpecNotif == Init /\ [][NotifNext]_vars

\* The caller's vectors against the builder's borrow of them.
BorrowNext ==
    \/ \E v \in VecIds, r \in PushValues : CallerPush(v, r)
    \/ \E v \in VecIds : CallerClear(v)
    \/ \E t \in Texts, v \in VecIds : New(t, v)
    \/ \E v \in VecIds : SetRecipients(v)
    \/ Build

SpecBorrow == Init /\ [][BorrowNext]_vars

(***************************************************************************)
(* client.rs                                                               *)
(***************************************************************************)
DEFAULT_BASE_URL == "https://api.engagespot.co/v3"

Ok(v) == [tag |-> "Ok", val |-> v]
Err(e) == [tag |-> "Err", val |-> e]
Panic == [tag |-> "Panic"]

\* header::HeaderValue::from_str accepts a byte that is a tab or is at least
\* a space and not DEL; anything else makes it return Err.
HeaderValue_from_str(bytes) ==
    IF \A i \in 1..Len(bytes) : bytes[i] = 9 \/ (bytes[i] >= 32 /\ bytes[i] /= 127)
    THEN Ok(bytes)
    ELSE Err("failed to parse header value")

\* Mutant: a header value that does not parse is replaced by an empty one.
create_default_client_lenient(api_key, api_secret, transport_built) ==
    LET key == HeaderValue_from_str(api_key)
        secret == HeaderValue_from_str(api_secret)
    IN  IF ~transport_built THEN Err("builder error")
        ELSE Ok([user_agent |-> "engagespot-rust",
                 default_headers |->
                     [Content_Type |-> "application/json",
                      X_ENGAGESPOT_API_KEY |-> IF key.tag = "Ok" THEN key.val ELSE <<>>,
                      X_ENGAGESPOT_API_SECRET |->
                          IF secret.tag = "Ok" THEN secret.val ELSE <<>>]])

\* transport_built: whether reqwest's ClientBuilder::build() succeeds.
\* The two from_str results are unwrapped before the builder runs.
create_default_client(api_key, api_secret, transport_built) ==
    LET key == HeaderValue_from_str(api_key)
        secret == HeaderValue_from_str(api_secret)
    IN  IF key.tag = "Err" \/ secret.tag = "Err" THEN Panic
        ELSE IF ~transport_built THEN Err("builder error")
        ELSE Ok([user_agent |-> "engagespot-rust",
                 default_headers |->
                     [Content_Type |-> "application/json",
                      X_ENGAGESPOT_API_KEY |-> key.val,
                      X_ENGAGESPOT_API_SECRET |-> secret.val]])

\* EngagespotBuilder::new: unwrap_or_else(|error| panic!(...)).
EngagespotBuilder_new(api_key, api_secret, transport_built) ==
    LET client == create_default_client(api_key, api_secret, transport_built)
    IN  IF client.tag = "Ok"
        THEN Ok([base_url |-> DEFAULT_BASE_URL, client |-> client.val])
        ELSE Panic

EngagespotBuilder_base_url(self, base_url) == [self EXCEPT !.base_url = base_url]

\* Mutant: build() forgets the override.
EngagespotBuilder_build_default(self) ==
    [base_url |-> DEFAULT_BASE_URL, client |-> self.client]

EngagespotBuilder_build(self) == [base_url |-> self.base_url, client |-> self.client]

Engagespot_new(api_key, api_secret, transport_built) ==
    LET b == EngagespotBuilder_new(api_key, api_secret, transport_built)
    IN  IF b.tag = "Ok" THEN Ok(EngagespotBuilder_build(b.val)) ELSE Panic

get_url(self, path) == self.base_url \o "/" \o path

\* StatusCode::is_success
is_success(status) == 200 <= status /\ status < 300

\* Mutant: the status is not looked at.
handle_response_ignores_status(response) ==
    IF response.text.tag = "Err" THEN Panic ELSE Ok(response.text.val)

\* response: the status, and the outcome of response.text().await, which is
\* unwrapped.
handle_response(response) ==
    IF response.text.tag = "Err" THEN Panic
    ELSE IF ~is_success(response.status) THEN Err(response.text.val)
    ELSE Ok(response.text.val)

\* What send hands to the transport: client.post(&url).json(&notification).
send_request(self, n) ==
    [method |-> "POST",
     url |-> get_url(self, "notifications"),
     headers |-> self.client.default_headers,
     body |-> Notification_serialize(n)]

\* client.put(&url).json(&attrs), url from format!("users/{identifier}").
create_or_update_user_attrs_request(self, identifier, attrs) ==
    [method |-> "PUT",
     url |-> get_url(self, "users/" \o identifier),
     headers |-> self.client.default_headers,
     body |-> SerializePayload(attrs)]

(***************************************************************************)
(* Construction of the client.                                             *)
(***************************************************************************)
\* "k1"; "k" LF; TAB and an obs-text byte
ApiKeys == {<<107, 49>>, <<107, 10>>, <<9, 200>>}
\* "s1"; "s2"; DEL
ApiSecrets == {<<115, 49>>, <<115, 50>>, <<127>>}
BaseUrls == {"https://api.engagespot.co/v5", "base_url/v2", "http://localhost:8080"}

Overrides == SelectSeq(elog, LAMBDA e : e.op = "base_url")

BuilderNew(k, s, tb) ==
    /\ cpc = "start"
    /\ LET r == EngagespotBuilder_new(k, s, tb)
       IN  IF r.tag = "Ok"
           THEN ebuilder' = Some(r.val) /\ cpc' = "builder"
           ELSE ebuilder' = None /\ cpc' = "panicked"
    /\ elog' = <<[op |-> "EngagespotBuilder::new", key |-> k, secret |-> s, built |-> tb]>>
    /\ UNCHANGED <<engagespot, calls>>
    /\ UNCHANGED nvars

BaseUrl(u) ==
    /\ cpc = "builder"
    /\ Len(Overrides) < MaxOverrides
    /\ ebuilder' = Some(EngagespotBuilder_base_url(unwrap(ebuilder), u))
    /\ elog' = Append(elog, [op |-> "base_url", arg |-> u])
    /\ UNCHANGED <<cpc, engagespot, calls>>
    /\ UNCHANGED nvars

BuildClient ==
    /\ cpc = "builder"
    /\ engagespot' = Some(EngagespotBuilder_build(unwrap(ebuilder)))
    /\ ebuilder' = None
    /\ cpc' = "client"
    /\ elog' = Append(elog, [op |-> "build"])
    /\ UNCHANGED calls
    /\ UNCHANGED nvars

EngagespotNew(k, s, tb) ==
    /\ cpc = "start"
    /\ LET r == Engagespot_new(k, s, tb)
       IN  IF r.tag = "Ok"
           THEN engagespot' = Some(r.val) /\ cpc' = "client"
           ELSE engagespot' = None /\ cpc' = "panicked"
    /\ elog' = <<[op |-> "Engagespot::new", key |-> k, secret |-> s, built |-> tb]>>
    /\ UNCHANGED <<ebuilder, calls>>
    /\ UNCHANGED nvars

ConstructNext ==
    \/ \E k \in ApiKeys, s \in ApiSecrets, tb \in BOOLEAN : BuilderNew(k, s, tb)
    \/ \E u \in BaseUrls : BaseUrl(u)
    \/ BuildClient
    \/ \E k \in ApiKeys, s \in ApiSecrets, tb \in BOOLEAN : EngagespotNew(k, s, tb)

SpecConstruct == Init /\ [][ConstructNext]_vars

(***************************************************************************)
(* Invocations of send and create_or_update_user_attrs on a built client.  *)
(* Each invocation is an async call with two suspension points: the        *)
(* request's send().await and, in handle_response, text().await.           *)
(***************************************************************************)
InvocationIds == 1..NumInvocations

IdleCall ==
    [pc |-> "idle", op |-> "none", arg |-> None,
     requests |-> <<>>, response |-> None, result |-> None]

Statuses == {200, 299, 300, 400}
Bodies == {"ok", "{\"error\":\"bad\"}"}
TransportErrors == {"error sending request"}
Identifiers == {"user@example.com", "a/b c"}
Attrs == {[ty |-> "Data", foo |-> "bar"]}

\* Notifications a caller passes to send, built by NotificationBuilder.
SampleNotifications ==
    {NotificationBuilder_build(NotificationBuilder_new("a", 1), CallerVecs),
     NotificationBuilder_build(
         NotificationBuilder_category(
             NotificationBuilder_message(NotificationBuilder_new("b", 2), "a"), "b"),
         CallerVecs),
     NotificationBuilder_build(
         NotificationBuilder_data(NotificationBuilder_new("a", 1),
                                  [ty |-> "Data", foo |-> "bar"]),
         CallerVecs)}

\* Mutant: send stores the URL it computed in the client.
Send_stores_url(c, n) ==
    /\ cpc = "client"
    /\ calls[c].pc = "idle"
    /\ calls' = [calls EXCEPT ![c] =
           [@ EXCEPT !.pc = "awaiting_send", !.op = "send", !.arg = Some(n),
                     !.requests = Append(@, send_request(unwrap(engagespot), n))]]
    /\ engagespot' = Some([unwrap(engagespot) EXCEPT
                              !.base_url = get_url(unwrap(engagespot), "notifications")])
    /\ UNCHANGED <<cpc, ebuilder, elog>>
    /\ UNCHANGED nvars

\* send up to its first await: the request is built and handed to the transport.
Send(c, n) ==
    /\ cpc = "client"
    /\ calls[c].pc = "idle"
    /\ calls' = [calls EXCEPT ![c] =
           [@ EXCEPT !.pc = "awaiting_send", !.op = "send", !.arg = Some(n),
                     !.requests = Append(@, send_request(unwrap(engagespot), n))]]
    /\ UNCHANGED <<cpc, ebuilder, engagespot, elog>>
    /\ UNCHANGED nvars

CreateOrUpdateUserAttrs(c, identifier, attrs) ==
    /\ cpc = "client"
    /\ calls[c].pc = "idle"
    /\ calls' = [calls EXCEPT ![c] =
           [@ EXCEPT !.pc = "awaiting_send", !.op = "create_or_update_user_attrs",
                     !.arg = Some([identifier |-> identifier, attrs |-> attrs]),
                     !.requests = Append(@,
                         create_or_update_user_attrs_request(
                             unwrap(engagespot), identifier, attrs))]]
    /\ UNCHANGED <<cpc, ebuilder, engagespot, elog>>
    /\ UNCHANGED nvars

\* Mutant: a transport failure is retried once before it is returned.
TransportFails_retry(c, e) ==
    /\ calls[c].pc = "awaiting_send"
    /\ calls' = [calls EXCEPT ![c] =
           IF Len(@.requests) < 2
           THEN [@ EXCEPT !.requests = Append(@, @[1])]
           ELSE [@ EXCEPT !.pc = "returned", !.result = Some(Err(e))]]
    /\ UNCHANGED <<cpc, ebuilder, engagespot, elog>>
    /\ UNCHANGED nvars

\* send().await yields Err(error): the match arm Err(error) => Err(error.to_string()).
TransportFails(c, e) ==
    /\ calls[c].pc = "awaiting_send"
    /\ calls' = [calls EXCEPT ![c] = [@ EXCEPT !.pc = "returned", !.result = Some(Err(e))]]
    /\ UNCHANGED <<cpc, ebuilder, engagespot, elog>>
    /\ UNCHANGED nvars

\* send().await yields Ok(response): handle_response reads the status and
\* awaits the body text.
TransportResponds(c, status) ==
    /\ calls[c].pc = "awaiting_send"
    /\ calls' = [calls EXCEPT ![c] =
           [@ EXCEPT !.pc = "awaiting_text",
                     !.response = Some([status |-> status, text |-> None])]]
    /\ UNCHANGED <<cpc, ebuilder, engagespot, elog>>
    /\ UNCHANGED nvars

\* text().await completes with t (Ok(body) or Err): the rest of handle_response.
TextCompletes(c, t) ==
    /\ calls[c].pc = "awaiting_text"
    /\ LET response == [status |-> unwrap(calls[c].response).status, text |-> t]
           r == handle_response(response)
       IN  calls' = [calls EXCEPT ![c] =
               [@ EXCEPT !.pc = IF r.tag = "Panic" THEN "panicked" ELSE "returned",
                         !.response = Some([status |-> response.status, text |-> Some(t)]),
                         !.result = IF r.tag = "Panic" THEN None ELSE Some(r)]]
    /\ UNCHANGED <<cpc, ebuilder, engagespot, elog>>
    /\ UNCHANGED nvars

TextOutcomes == {Ok(b) : b \in Bodies} \cup {Err("error decoding response body")}

\* Clients a program can hold: Engagespot::new, or the builder with an override.
CallsInit ==
    /\ vecs = CallerVecs
    /\ borrowed = {}
    /\ bpc = "none"
    /\ builder = None
    /\ notification = None
    /\ wire = None
    /\ log = <<>>
    /\ cpc = "client"
    /\ ebuilder = None
    /\ \/ /\ engagespot = Some(Engagespot_new(<<107, 49>>, <<115, 49>>, TRUE).val)
          /\ elog = <<[op |-> "Engagespot::new", key |-> <<107, 49>>,
                       secret |-> <<115, 49>>, built |-> TRUE]>>
       \/ /\ engagespot = Some(EngagespotBuilder_build(EngagespotBuilder_base_url(
                 EngagespotBuilder_new(<<107, 49>>, <<115, 49>>, TRUE).val,
                 "http://localhost:8080")))
          /\ elog = <<[op |-> "EngagespotBuilder::new", key |-> <<107, 49>>,
                       secret |-> <<115, 49>>, built |-> TRUE],
                      [op |-> "base_url", arg |-> "http://localhost:8080"],
                      [op |-> "build"]>>
    /\ calls = [c \in InvocationIds |-> IdleCall]

CallsNext ==
    \/ \E c \in InvocationIds, n \in SampleNotifications : Send(c, n)
    \/ \E c \in InvocationIds, i \in Identifiers, a \in Attrs : CreateOrUpdateUserAttrs(c, i, a)
    \/ \E c \in InvocationIds, e \in TransportErrors : TransportFails(c, e)
    \/ \E c \in InvocationIds, st \in Statuses : TransportResponds(c, st)
    \/ \E c \in InvocationIds, t \in TextOutcomes : TextCompletes(c, t)

SpecCalls == CallsInit /\ [][CallsNext]_vars

(***************************************************************************)
(* Properties of send / create_or_update_user_attrs (SpecCalls).           *)
(***************************************************************************)
Started(c) == calls[c].pc /= "idle"

\* C1: when a response was delivered and its body text read, the operation
\* returns, with Ok(body) for a status in 200..299 and Err(body) for any
\* other status, body being the response text exactly as read.
C1_StatusDecidesChannel ==
    \A c \in InvocationIds :
        (/\ calls[c].response /= None
         /\ unwrap(calls[c].response).text /= None
         /\ unwrap(unwrap(calls[c].response).text).tag = "Ok") =>
            LET r == unwrap(calls[c].response)
                body == unwrap(r.text).val
            IN  /\ calls[c].pc = "returned"
                /\ calls[c].result =
                       Some(IF r.status >= 200 /\ r.status <= 299
                            THEN [tag |-> "Ok", val |-> body]
                            ELSE [tag |-> "Err", val |-> body])

C1_Witness ==
    \E c, d \in InvocationIds :
        /\ calls[c].op = "send" /\ calls[c].pc = "returned"
        /\ calls[c].response /= None
        /\ unwrap(calls[c].response).status = 400
        /\ calls[c].result = Some([tag |-> "Err", val |-> "{\"error\":\"bad\"}"])
        /\ calls[d].op = "create_or_update_user_attrs" /\ calls[d].pc = "returned"
        /\ calls[d].response /= None
        /\ unwrap(calls[d].response).status = 299
        /\ calls[d].result = Some([tag |-> "Ok", val |-> "ok"])

\* C2: every started invocation has issued exactly one request, whatever its
\* outcome: POST base_url/notifications for send, PUT base_url/users/<identifier>
\* with the identifier unchanged for create_or_update_user_attrs.
C2_ExactlyOneRequest ==
    \A c \in InvocationIds :
        Started(c) =>
            /\ Len(calls[c].requests) = 1
            /\ calls[c].op = "send" =>
                   /\ calls[c].requests[1].method = "POST"
                   /\ calls[c].requests[1].url =
                          unwrap(engagespot).base_url \o "/notifications"
            /\ calls[c].op = "create_or_update_user_attrs" =>
                   /\ calls[c].requests[1].method = "PUT"
                   /\ calls[c].requests[1].url =
                          unwrap(engagespot).base_url \o "/users/"
                              \o unwrap(calls[c].arg).identifier

C2_Witness ==
    \E c, d \in InvocationIds :
        /\ calls[c].op = "send" /\ calls[c].pc = "returned"
        /\ calls[c].response = None
        /\ calls[c].result = Some([tag |-> "Err", val |-> "error sending request"])
        /\ Len(calls[c].requests) = 1
        /\ calls[d].op = "create_or_update_user_attrs" /\ calls[d].pc = "returned"
        /\ unwrap(calls[d].arg).identifier = "a/b c"
        /\ calls[d].requests[1].url = "http://localhost:8080/users/a/b c"
        /\ calls[d].result = Some([tag |-> "Err", val |-> "ok"])

\* C3: every failure of an invocation is returned as Err(text); no invocation
\* ends in a panic.
C3_NoPanicFromCalls ==
    \A c \in InvocationIds :
        /\ calls[c].pc /= "panicked"
        /\ (calls[c].pc = "returned" /\ calls[c].response = None) =>
               calls[c].result /= None /\ unwrap(calls[c].result).tag = "Err"

\* The request the arguments of invocation c give, and no other.
C9_OwnRequest(c) ==
    calls[c].requests =
        <<[method |-> IF calls[c].op = "send" THEN "POST" ELSE "PUT",
           url |-> IF calls[c].op = "send"
                   THEN unwrap(engagespot).base_url \o "/notifications"
                   ELSE unwrap(engagespot).base_url \o "/users/"
                            \o unwrap(calls[c].arg).identifier,
           headers |-> unwrap(engagespot).client.default_headers,
           body |-> IF calls[c].op = "send"
                    THEN Notification_serialize(unwrap(calls[c].arg))
                    ELSE [t |-> "object",
                          members |-> <<[key |-> "foo",
                                         val |-> [t |-> "string",
                                                  s |-> unwrap(calls[c].arg).attrs.foo]]>>]]>>

\* The result the response of invocation c gives.
C9_OwnResult(c) ==
    (calls[c].pc = "returned" /\ calls[c].response /= None) =>
        /\ unwrap(calls[c].result).val = unwrap(unwrap(calls[c].response).text).val
        /\ (unwrap(calls[c].result).tag = "Ok") <=>
               (unwrap(calls[c].response).status \in 200..299)

\* C9: no step of any invocation changes the client; a step changes the
\* record of one invocation only; each invocation's request is the one its
\* own arguments give and its result the one its own response gives.
C9_Isolation ==
    /\ [](\A c \in InvocationIds : Started(c) => C9_OwnRequest(c) /\ C9_OwnResult(c))
    /\ [][/\ engagespot' = engagespot
          /\ Cardinality({c \in InvocationIds : calls'[c] /= calls[c]}) <= 1]_vars

C9_Witness ==
    \E c, d \in InvocationIds :
        /\ c /= d
        /\ calls[c].op = "send" /\ calls[d].op = "send"
        /\ calls[c].arg /= calls[d].arg
        /\ calls[c].pc = "awaiting_text" /\ calls[d].pc = "returned"
        /\ calls[d].result = Some([tag |-> "Ok", val |-> "ok"])
        /\ calls[c].requests /= calls[d].requests

(***************************************************************************)
(* Properties of client construction (SpecConstruct).                      *)
(***************************************************************************)
\* C5: the built client's base_url is the default when base_url(...) was not
\* called, and the last override otherwise; Engagespot::new gives the default.
C5_BaseUrl ==
    cpc = "client" =>
        unwrap(engagespot).base_url =
            IF Overrides = <<>>
            THEN "https://api.engagespot.co/v3"
            ELSE Overrides[Len(Overrides)].arg

C5_Witness ==
    /\ cpc = "client"
    /\ Len(Overrides) = 2
    /\ Overrides[1].arg = "base_url/v2"
    /\ Overrides[2].arg = "https://api.engagespot.co/v5"
    /\ unwrap(engagespot).base_url = "https://api.engagespot.co/v5"

\* A byte HeaderValue rejects: a control character other than tab, or DEL.
C8_Rejected(bytes) ==
    \E i \in 1..Len(bytes) : bytes[i] \in (0..8) \cup (10..31) \cup {127}

C8_Headers(k, s) ==
    [Content_Type |-> "application/json",
     X_ENGAGESPOT_API_KEY |-> k,
     X_ENGAGESPOT_API_SECRET |-> s]

\* C8: construction panics exactly when the key or the secret is not a valid
\* header value or the transport cannot be built; otherwise the builder or
\* client carries the three headers, and the default base URL until overridden.
C8_AllOrNothing ==
    elog /= <<>> =>
        LET k == elog[1].key
            s == elog[1].secret
            bad == C8_Rejected(k) \/ C8_Rejected(s) \/ ~elog[1].built
        IN  /\ cpc \in {"builder", "client", "panicked"}
            /\ (cpc = "panicked") <=> bad
            /\ cpc = "panicked" => ebuilder = None /\ engagespot = None
            /\ cpc = "builder" =>
                   /\ unwrap(ebuilder).client.default_headers = C8_Headers(k, s)
                   /\ Overrides = <<>> =>
                          unwrap(ebuilder).base_url = "https://api.engagespot.co/v3"
            /\ cpc = "client" =>
                   /\ unwrap(engagespot).client.default_headers = C8_Headers(k, s)
                   /\ Overrides = <<>> =>
                          unwrap(engagespot).base_url = "https://api.engagespot.co/v3"

C8_Witness ==
    /\ cpc = "panicked"
    /\ elog[1].op = "Engagespot::new"
    /\ elog[1].built
    /\ elog[1].key = <<9, 200>>
    /\ elog[1].secret = <<127>>

(***************************************************************************)
(* Properties of the serialized Notification (SpecNotif).                  *)
(***************************************************************************)
Keys(obj) == {obj.members[i].key : i \in 1..Len(obj.members)}
Value(obj, k) == (CHOOSE i \in 1..Len(obj.members) : obj.members[i].key = k)

\* C4: in the serialized Notification no member is null, and the key of
\* every absent optional field (data, category; message, url, icon of the
\* item) is missing.
C4_AbsentFieldsOmitted ==
    wire /= None =>
        LET n == unwrap(notification)
            top == unwrap(wire)
            item == top.members[Value(top, "notification")].val
        IN  /\ \A i \in 1..Len(top.members) : top.members[i].val.t /= "null"
            /\ \A i \in 1..Len(item.members) : item.members[i].val.t /= "null"
            /\ ("data" \in Keys(top)) <=> (n.data /= None)
            /\ ("category" \in Keys(top)) <=> (n.category /= None)
            /\ ("message" \in Keys(item)) <=> (n.notification.message /= None)
            /\ ("url" \in Keys(item)) <=> (n.notification.url /= None)
            /\ ("icon" \in Keys(item)) <=> (n.notification.icon /= None)

(***************************************************************************)
(* Properties of NotificationBuilder (SpecNotif, SpecBorrow).              *)
(***************************************************************************)
\* C6: NotificationBuilder::new(T, R).build() has title T and the elements
\* of R in order; no Notification exists before build(), and once built it
\* never changes, whatever the caller then does to its vectors.
C6_BuildCopiesRecipients ==
    /\ [](bpc \in {"none", "building"} => notification = None)
    /\ []((bpc = "built" /\ Len(log) = 1) =>
              /\ unwrap(notification).notification.title = log[1].arg
              /\ unwrap(notification).recipients = log[1].snap)
    /\ [][notification /= None => notification' = notification]_vars

C6_Witness ==
    /\ bpc = "built"
    /\ Len(log) = 1
    /\ builder.recipients = 1
    /\ unwrap(notification).recipients = <<"r1", "r2">>
    /\ vecs[1] = <<"r3">>

SingleFieldCalls ==
    [op : TextSetters, arg : Texts] \cup [op : {"recipients"}, arg : VecIds]
        \cup {c \in [op : {"data"}, arg : Payloads] : SameT(c.arg)}

\* C7: from any builder state, two chain methods that write different fields
\* among title, message, url, icon, recipients, data and category give the
\* same Notification in either order.
C7_DisjointSettersCommute ==
    bpc = "building" =>
        \A f, g \in SingleFieldCalls :
            f.op /= g.op =>
                NotificationBuilder_build(ApplySetter(ApplySetter(builder, f), g), vecs)
                    = NotificationBuilder_build(ApplySetter(ApplySetter(builder, g), f), vecs)

C7_Witness ==
    /\ bpc = "building"
    /\ Len(log) = 3
    /\ log[2].op = "title" /\ log[2].arg = "b"
    /\ log[3].op = "message" /\ log[3].arg = "a"
    /\ builder = ApplySetter(ApplySetter(NotificationBuilder_new(log[1].arg, 1),
                                         [op |-> "message", arg |-> "a"]),
                             [op |-> "title", arg |-> "b"])

\* The calls that write a field of the Notification.
Writers(field) ==
    CASE field \in {"message", "url", "icon"} -> {field, "notification_item"}
      [] field = "title" -> {"new", "title", "notification_item"}
      [] field = "recipients" -> {"new", "recipients"}
      [] OTHER -> {field}

LastWrite(field) ==
    LET idx == {i \in 1..Len(log) : log[i].op \in Writers(field)}
    IN  IF idx = {} THEN 0 ELSE CHOOSE i \in idx : \A j \in idx : j <= i

\* The value of a field after the calls of the log: that of its last write,
\* or absent.
Expected(field) ==
    LET i == LastWrite(field)
    IN  IF i = 0 THEN <<>>
        ELSE IF log[i].op = "notification_item" THEN log[i].arg[field]
        ELSE IF field = "recipients" THEN log[i].snap
        ELSE IF field = "title" THEN log[i].arg
        ELSE <<log[i].arg>>

\* C10: every field of the built Notification has the value of the most
\* recent call that writes it, or its initial value; notification_item
\* writes title, message, url and icon together.
C10_LastWriteWins ==
    bpc = "built" =>
        LET n == unwrap(notification)
        IN  /\ n.notification.title = Expected("title")
            /\ n.notification.message = Expected("message")
            /\ n.notification.url = Expected("url")
            /\ n.notification.icon = Expected("icon")
            /\ n.recipients = Expected("recipients")
            /\ n.data = Expected("data")
            /\ n.category = Expected("category")

C10_Witness ==
    /\ bpc = "built"
    /\ Len(log) = 3
    /\ log[1].arg = "a"
    /\ log[2].op = "message" /\ log[2].arg = "a"
    /\ log[3].op = "notification_item"
    /\ unwrap(notification).notification.title = "b"
    /\ unwrap(notification).notification.message = <<>>
====
